---- MODULE Spec2Model ----
(***************************************************************************)
(* Sliding-window ARQ of ScreenCastSender (src/Sender.py) and              *)
(* ScreenCastReceiver (src/reciver.py) over a UDP channel that may lose,   *)
(* duplicate and reorder datagrams.                                        *)
(*                                                                         *)
(* A payload is a sequence of bytes.  Sizes are scaled: max_chunk_size     *)
(* stands for the 60000 bytes of split_large_frame, every other number of *)
(* the protocol (header, datagram limit, timeout, retry budget) is the     *)
(* source's.  Python's None is <<>> and a value x is <<x>> (Some(x)).       *)
(*                                                                         *)
(* Time: the code reads a record's timestamp only in                       *)
(* "current_time - timestamp > timeout", so a record carries its age,      *)
(* time.time() - timestamp, which the clock's Tick raises and which stops  *)
(* counting at timeout + 1 (every older record behaves alike).             *)
(***************************************************************************)
EXTENDS Integers, Sequences, FiniteSets, TLC

\* ------------------------------------------------------------------ bounds
MaxSeq    == 2   \* frames the sender may accept (next_seq_num <= MaxSeq)
MaxLen    == 3   \* longest payload handed to send_frame_with_protocol
MaxFails  == 1   \* sendto() calls that raise
MaxWindow == 2   \* largest --window-size
MaxDup    == 1   \* cap of duplicate_count
MaxResend == 1   \* cap of retransmit_count where the channel is modelled
SysMaxLen == 2   \* longest payload where the channel is modelled
LiveFrames == 1  \* frames the caller sends where fairness is stated
max_chunk_size == 1  \* split_large_frame's max_chunk_size (60000), scaled
MaxChunk == 4    \* largest max_chunk_size handed to split_large_frame
MaxChunkCount == 3  \* largest value of the header's 'B' fields (255), scaled

\* ------------------------------------------------------- program constants
HeaderSize        == 10      \* struct '>IIBB'
MaxDatagramSize   == 65507   \* "if len(packet) > 65507"
timeout           == 1       \* check_timeouts: timeout = 1.0
MaxRetries        == 3       \* check_timeouts: retries < 3

Bytes == {1, 2}

None == << >>
Some(x) == << x >>

Min(a, b) == IF a <= b THEN a ELSE b

\* The payload source (capture_screen + compress_frame): one encoded frame,
\* every byte of which carries the frame's content tag.
Payloads == { [i \in 1..n |-> b] : n \in 1..MaxLen, b \in Bytes }

\* the frames of one content, and the frames of at most n bytes
OneContent == { p \in Payloads : p[1] = 1 }
UpTo(n) == { p \in Payloads : Len(p) <= n }

\* dict helpers: a dict is a function on the finite set of its keys
EmptyDict == [k \in {} |-> 0]
DictSet(d, k, v) == [x \in (DOMAIN d) \cup {k} |-> IF x = k THEN v ELSE d[x]]
DictDel(d, k) == [x \in (DOMAIN d) \ {k} |-> d[x]]
DictGet(d, k, default) == IF k \in DOMAIN d THEN d[k] ELSE default

VARIABLES
  \* ScreenCastSender
  window_size, next_seq_num, base, sent_packets, ack_received,
  sent_count, retransmit_count,
  \* ScreenCastReceiver
  expected_seq_num, receive_buffer, frame_chunks, frame_total_chunks,
  recv_count, duplicate_count,
  \* environment: the two directions of the UDP channel, the number of
  \* sendto() calls that raised
  net, acks, send_errors,
  \* observation: the last call and what it returned
  last,
  \* history: acked holds the sequence numbers of sent frames an ACK was
  \* received for, delivered the sequence numbers handed to the receiver's
  \* caller, in order
  acked, delivered

sender_vars == <<window_size, next_seq_num, base, sent_packets, ack_received,
                 sent_count, retransmit_count>>
receiver_vars == <<expected_seq_num, receive_buffer, frame_chunks,
                   frame_total_chunks, recv_count, duplicate_count>>
vars == <<window_size, next_seq_num, base, sent_packets, ack_received,
          sent_count, retransmit_count,
          expected_seq_num, receive_buffer, frame_chunks, frame_total_chunks,
          recv_count, duplicate_count,
          net, acks, send_errors, last,
          acked, delivered>>

\* ------------------------------------------------------------ fragmenter
\* mutant: the chunk count is rounded down, the tail of the frame is lost
split_large_frame_Floor(frame_data, max) ==
  IF Len(frame_data) <= max THEN << frame_data >>
  ELSE [i \in 1..(Len(frame_data) \div max) |->
          SubSeq(frame_data, (i - 1) * max + 1, i * max)]

\* split_large_frame: the chunks, first to last
split_large_frame(frame_data, max) ==
  IF Len(frame_data) <= max THEN << frame_data >>
  ELSE LET total_chunks == (Len(frame_data) + max - 1) \div max
       IN [i \in 1..total_chunks |->
             SubSeq(frame_data, (i - 1) * max + 1,
                    Min(i * max, Len(frame_data)))]

\* header + chunk_data of chunk number i (chunk_index i - 1) of chunks
Packet(chunks, seq_num, i) ==
  [length |-> Len(chunks[i]), seq_num |-> seq_num, chunk_index |-> i - 1,
   total_chunks |-> Len(chunks), data |-> chunks[i]]

PacketLen(p) == HeaderSize + Len(p.data)

\* the datagrams of the first n chunks
Sent(chunks, seq_num, n) == { Packet(chunks, seq_num, i) : i \in 1..n }

\* sendto() of the datagrams tx.  channel says whether the specification
\* keeps what is on the wire (TRUE) or lets the sender talk to any peer, its
\* datagrams unobserved (FALSE).
Transmit(channel, tx) == net' = IF channel THEN net \cup tx ELSE net

\* ---------------------------------------------------------------- Init
Init ==
  /\ window_size \in 1..MaxWindow
  /\ next_seq_num = 0
  /\ base = 0
  /\ sent_packets = EmptyDict
  /\ ack_received = EmptyDict
  /\ sent_count = 0
  /\ retransmit_count = 0
  /\ expected_seq_num = 0
  /\ receive_buffer = EmptyDict
  /\ frame_chunks = EmptyDict
  /\ frame_total_chunks = EmptyDict
  /\ recv_count = 0
  /\ duplicate_count = 0
  /\ net = {}
  /\ acks = {}
  /\ send_errors = 0
  /\ last = [op |-> "init"]
  /\ acked = {}
  /\ delivered = << >>

\* time.time() advances by one unit: every record is one unit older
Tick ==
  /\ sent_packets' = [s \in DOMAIN sent_packets |->
        [sent_packets[s] EXCEPT !.age = Min(@ + 1, timeout + 1)]]
  /\ last' = [op |-> "tick"]
  /\ UNCHANGED <<window_size, next_seq_num, base, ack_received, sent_count,
                 retransmit_count, receiver_vars, net, acks, send_errors,
                 acked, delivered>>

\* ---------------------------------------------------------------- sender
\* The sendto() calls of one loop over chunks: fail is the number of the
\* call that raises (Len(chunks) + 1: none does).
FailPoints(chunks) == 1..(Len(chunks) + 1)
Raises(chunks, fail) == fail <= Len(chunks)

\* send_frame_with_protocol's loop stops at the first chunk whose packet is
\* over 65507 bytes or whose sendto() raises
FirstTooLarge(chunks, seq_num) ==
  LET big == { i \in 1..Len(chunks) :
                 PacketLen(Packet(chunks, seq_num, i)) > MaxDatagramSize }
  IN IF big = {} THEN Len(chunks) + 1
     ELSE CHOOSE i \in big : \A j \in big : i <= j

\* mutant of the window test: one frame too many
WindowFull_OffByOne == next_seq_num - base > window_size

WindowFull == next_seq_num - base >= window_size

\* mutant: a sendto() that raises is skipped and the loop goes on, so the
\* frame is recorded as sent
send_frame_with_protocol_SwallowsError(frame_data, fail, channel) ==
  LET chunks == split_large_frame(frame_data, max_chunk_size)
  IN
  IF WindowFull
  THEN /\ last' = [op |-> "send", ok |-> FALSE, tx |-> 0]
       /\ UNCHANGED <<sender_vars, net, send_errors>>
  ELSE /\ Transmit(channel, Sent(chunks, next_seq_num, Len(chunks)))
       /\ sent_packets' = DictSet(sent_packets, next_seq_num,
             [frame_data |-> frame_data, age |-> 0, retries |-> 0])
       /\ ack_received' = DictSet(ack_received, next_seq_num, FALSE)
       /\ next_seq_num' = next_seq_num + 1
       /\ sent_count' = sent_count + 1
       /\ send_errors' = send_errors + (IF Raises(chunks, fail) THEN 1 ELSE 0)
       /\ last' = [op |-> "send", ok |-> TRUE, tx |-> Len(chunks)]
       /\ UNCHANGED <<window_size, base, retransmit_count>>

send_frame_with_protocol(frame_data, fail, channel) ==
  LET chunks == split_large_frame(frame_data, max_chunk_size)
      stop == Min(fail, FirstTooLarge(chunks, next_seq_num))
  IN
  IF WindowFull
  THEN /\ last' = [op |-> "send", ok |-> FALSE, tx |-> 0]
       /\ UNCHANGED <<sender_vars, net, send_errors>>
  ELSE IF Len(chunks) > MaxChunkCount
  THEN \* struct.pack('>IIBB', ...) of the first chunk raises struct.error,
       \* outside the try: the call returns nothing
       /\ last' = [op |-> "send", ok |-> FALSE, tx |-> 0,
                   error |-> "struct.error"]
       /\ UNCHANGED <<sender_vars, net, send_errors>>
  ELSE IF stop <= Len(chunks)
  THEN /\ Transmit(channel, Sent(chunks, next_seq_num, stop - 1))
       /\ send_errors' = send_errors + (IF stop = fail THEN 1 ELSE 0)
       /\ last' = [op |-> "send", ok |-> FALSE, tx |-> stop - 1]
       /\ UNCHANGED sender_vars
  ELSE /\ Transmit(channel, Sent(chunks, next_seq_num, Len(chunks)))
       /\ sent_packets' = DictSet(sent_packets, next_seq_num,
             [frame_data |-> frame_data, age |-> 0, retries |-> 0])
       /\ ack_received' = DictSet(ack_received, next_seq_num, FALSE)
       /\ next_seq_num' = next_seq_num + 1
       /\ sent_count' = sent_count + 1
       /\ last' = [op |-> "send", ok |-> TRUE, tx |-> Len(chunks)]
       /\ UNCHANGED <<window_size, base, retransmit_count, send_errors>>

\* the caller hands a payload to send_frame_with_protocol; at most `frames`
\* frames are accepted
TrySend(payloads, channel, frames) ==
  /\ WindowFull \/ next_seq_num < frames
  /\ \E frame_data \in payloads :
       \E fail \in FailPoints(split_large_frame(frame_data, max_chunk_size)) :
         /\ Raises(split_large_frame(frame_data, max_chunk_size), fail)
              => send_errors < MaxFails
         /\ send_frame_with_protocol(frame_data, fail, channel)
  /\ UNCHANGED <<receiver_vars, acks, acked, delivered>>

\* mutant: the timestamp is not reset by a retransmission
retransmit_frame_KeepsTimestamp(packets, seq_num, fail) ==
  IF seq_num \notin DOMAIN packets
  THEN [ok |-> FALSE, info |-> None, tx |-> {}]
  ELSE LET packet_info == packets[seq_num]
           chunks == split_large_frame(packet_info.frame_data, max_chunk_size)
       IN IF Raises(chunks, fail)
          THEN [ok |-> FALSE, info |-> packet_info,
                tx |-> Sent(chunks, seq_num, fail - 1)]
          ELSE [ok |-> TRUE,
                info |-> [packet_info EXCEPT !.retries = @ + 1],
                tx |-> Sent(chunks, seq_num, Len(chunks))]

\* mutant: a retransmission whose sendto() raises still uses up a retry
retransmit_frame_CountsFailure(packets, seq_num, fail) ==
  IF seq_num \notin DOMAIN packets
  THEN [ok |-> FALSE, info |-> None, tx |-> {}]
  ELSE LET packet_info == packets[seq_num]
           chunks == split_large_frame(packet_info.frame_data, max_chunk_size)
       IN IF Raises(chunks, fail)
          THEN [ok |-> FALSE,
                info |-> [packet_info EXCEPT !.retries = @ + 1],
                tx |-> Sent(chunks, seq_num, fail - 1)]
          ELSE [ok |-> TRUE,
                info |-> [packet_info EXCEPT !.age = 0, !.retries = @ + 1],
                tx |-> Sent(chunks, seq_num, Len(chunks))]

\* retransmit_frame on the records `packets`: whether it returned True, the
\* record afterwards and the datagrams put on the wire
retransmit_frame(packets, seq_num, fail) ==
  IF seq_num \notin DOMAIN packets
  THEN [ok |-> FALSE, info |-> None, tx |-> {}]
  ELSE LET packet_info == packets[seq_num]
           chunks == split_large_frame(packet_info.frame_data, max_chunk_size)
       IN IF Raises(chunks, fail)
          THEN [ok |-> FALSE, info |-> packet_info,
                tx |-> Sent(chunks, seq_num, fail - 1)]
          ELSE [ok |-> TRUE,
                info |-> [packet_info EXCEPT !.age = 0, !.retries = @ + 1],
                tx |-> Sent(chunks, seq_num, Len(chunks))]

\* mutant: the retry budget is not tested
TimedOut_NoBudget(seq_num) ==
  /\ sent_packets[seq_num].age > timeout
  /\ ~DictGet(ack_received, seq_num, FALSE)

\* check_timeouts' condition on one record
TimedOut(seq_num) ==
  /\ sent_packets[seq_num].age > timeout
  /\ sent_packets[seq_num].retries < MaxRetries
  /\ ~DictGet(ack_received, seq_num, FALSE)

Due == { s \in DOMAIN sent_packets : TimedOut(s) }

\* check_timeouts; fail[s] is the sendto() that raises while s is resent
check_timeouts(fail, channel) ==
  LET res == [s \in Due |-> retransmit_frame(sent_packets, s, fail[s])]
      resent == { s \in Due : res[s].ok }
  IN /\ sent_packets' = [s \in DOMAIN sent_packets |->
                           IF s \in Due THEN res[s].info ELSE sent_packets[s]]
     /\ retransmit_count' = retransmit_count + Cardinality(resent)
     /\ Transmit(channel, UNION { res[s].tx : s \in Due })
     /\ send_errors' = send_errors + Cardinality(Due \ resent)
     /\ last' = [op |-> "timeouts"]
     /\ UNCHANGED <<window_size, next_seq_num, base, ack_received, sent_count>>

CheckTimeouts(max_resend, channel) ==
  /\ retransmit_count + Cardinality(Due) <= max_resend
  /\ \E fail \in [Due -> 1..(MaxLen + 1)] :
       /\ \A s \in Due : fail[s] \in FailPoints(
              split_large_frame(sent_packets[s].frame_data, max_chunk_size))
       /\ send_errors + Cardinality({ s \in Due : Raises(
              split_large_frame(sent_packets[s].frame_data, max_chunk_size),
              fail[s]) }) <= MaxFails
       /\ check_timeouts(fail, channel)
  /\ UNCHANGED <<receiver_vars, acks, acked, delivered>>

\* mutant: "if" for "while", the window slides over one frame only
SlideWindow_Once(b, flags) ==
  IF b \in DOMAIN flags /\ flags[b]
  THEN [base |-> b + 1, ack_received |-> DictDel(flags, b)]
  ELSE [base |-> b, ack_received |-> flags]

\* process_acks' "slide window forward" loop
RECURSIVE SlideWindow(_, _)
SlideWindow(b, flags) ==
  IF b \in DOMAIN flags /\ flags[b]
  THEN SlideWindow(b + 1, DictDel(flags, b))
  ELSE [base |-> b, ack_received |-> flags]

\* mutant: any sequence number below next_seq_num is taken for a live frame
process_ack_AnySent(ack_seq) ==
  IF ack_seq < next_seq_num /\ ~DictGet(ack_received, ack_seq, FALSE)
  THEN LET slid == SlideWindow(base, DictSet(ack_received, ack_seq, TRUE))
       IN /\ sent_packets' = IF ack_seq \in DOMAIN sent_packets
                             THEN DictDel(sent_packets, ack_seq)
                             ELSE sent_packets
          /\ base' = slid.base
          /\ ack_received' = slid.ack_received
          /\ UNCHANGED <<window_size, next_seq_num, sent_count,
                         retransmit_count>>
  ELSE UNCHANGED sender_vars

\* process_acks on one 4-byte datagram carrying ack_seq
process_ack(ack_seq) ==
  IF ack_seq \in DOMAIN ack_received /\ ~ack_received[ack_seq]
  THEN LET slid == SlideWindow(base, [ack_received EXCEPT ![ack_seq] = TRUE])
       IN /\ sent_packets' = IF ack_seq \in DOMAIN sent_packets
                             THEN DictDel(sent_packets, ack_seq)
                             ELSE sent_packets
          /\ base' = slid.base
          /\ ack_received' = slid.ack_received
          /\ UNCHANGED <<window_size, next_seq_num, sent_count,
                         retransmit_count>>
  ELSE UNCHANGED sender_vars

ProcessAck(ack_seq) ==
  /\ process_ack(ack_seq)
  /\ last' = [op |-> "ack", seq |-> ack_seq,
               hit |-> (ack_seq \in DOMAIN ack_received
                          /\ ~ack_received[ack_seq])]
  /\ acked' = acked \cup ({ack_seq} \cap 0..(next_seq_num - 1))
  /\ UNCHANGED <<receiver_vars, net, acks, send_errors, delivered>>

\* an ACK of the channel reaches the sender (any of them, any number of times)
RecvAck == \E ack_seq \in acks : ProcessAck(ack_seq)

\* -------------------------------------------------------------- receiver
\* decompress_frame (cv2.imdecode): an encoded frame decodes to its image,
\* which the model identifies with the payload; other bytes decode to an
\* image or to None, as the decoder finds them
decompress_frame(data) ==
  IF data \in Payloads THEN { Some(data) } ELSE { None, Some(data) }

\* mutant: the chunks are joined last index first
RECURSIVE Concat_Reversed(_, _)
Concat_Reversed(chunks_dict, n) ==
  IF n = 0 THEN << >>
  ELSE chunks_dict[n - 1] \o Concat_Reversed(chunks_dict, n - 1)

\* chunks_dict[0] + ... + chunks_dict[total_chunks - 1]
RECURSIVE Concat(_, _)
Concat(chunks_dict, n) ==
  IF n = 0 THEN << >> ELSE Concat(chunks_dict, n - 1) \o chunks_dict[n - 1]

\* mutant: the frame is taken for complete when at least total_chunks
\* chunks are stored
reassemble_frame_AtLeast(chunks, totals, seq_num) ==
  LET unchanged == [frame_data |-> None, frame_chunks |-> chunks,
                    frame_total_chunks |-> totals]
  IN IF seq_num \notin DOMAIN chunks THEN unchanged
     ELSE LET chunks_dict == chunks[seq_num]
              total_chunks == DictGet(totals, seq_num, 0)
          IN IF Cardinality(DOMAIN chunks_dict) < total_chunks THEN unchanged
             ELSE IF \E i \in 0..(total_chunks - 1) : i \notin DOMAIN chunks_dict
                  THEN unchanged
                  ELSE [frame_data |-> Some(Concat(chunks_dict, total_chunks)),
                        frame_chunks |-> DictDel(chunks, seq_num),
                        frame_total_chunks |-> DictDel(totals, seq_num)]

\* reassemble_frame on the stores `chunks` and `totals`: the frame data (or
\* None) and the stores afterwards
reassemble_frame(chunks, totals, seq_num) ==
  LET unchanged == [frame_data |-> None, frame_chunks |-> chunks,
                    frame_total_chunks |-> totals]
  IN IF seq_num \notin DOMAIN chunks THEN unchanged
     ELSE LET chunks_dict == chunks[seq_num]
              total_chunks == DictGet(totals, seq_num, 0)
          IN IF Cardinality(DOMAIN chunks_dict) # total_chunks THEN unchanged
             ELSE IF \E i \in 0..(total_chunks - 1) : i \notin DOMAIN chunks_dict
                  THEN unchanged
                  ELSE [frame_data |-> Some(Concat(chunks_dict, total_chunks)),
                        frame_chunks |-> DictDel(chunks, seq_num),
                        frame_total_chunks |-> DictDel(totals, seq_num)]

\* "deliver any buffered packets": expected_seq_num after the while loop
RECURSIVE Drain(_, _)
Drain(expected, buffer) ==
  IF expected \in DOMAIN buffer THEN Drain(expected + 1, buffer) ELSE expected

\* mutant: the ACK carries expected_seq_num (a cumulative ACK)
send_ack_Cumulative(seq_num, raises) ==
  /\ acks' = IF raises THEN acks ELSE acks \cup {expected_seq_num}
  /\ send_errors' = send_errors + (IF raises THEN 1 ELSE 0)

\* send_ack: the ACK goes on the wire unless sendto() raises
send_ack(seq_num, raises) ==
  /\ acks' = IF raises THEN acks ELSE acks \cup {seq_num}
  /\ send_errors' = send_errors + (IF raises THEN 1 ELSE 0)

\* mutant: only a datagram with more data than declared is rejected
LengthMismatch_LongOnly(d) == Len(d.data) > d.length

\* "Validate packet": len(chunk_data) != data_length
LengthMismatch(d) == Len(d.data) # d.length

\* process_incoming_packets on a datagram of fewer than 10 bytes: the test
\* len(data) >= 10 fails and the loop goes to the next datagram (no header
\* is read: seq is -1)
ShortPacket ==
  /\ last' = [op |-> "recv", ret |-> "continue", seq |-> -1,
               data |-> None, frame |-> None, acked |-> None]
  /\ UNCHANGED <<sender_vars, receiver_vars, net, acks, send_errors, acked,
                 delivered>>

\* mutant: a frame below expected_seq_num is taken for the expected one
InOrder_OrOlder(seq_num) == seq_num <= expected_seq_num

\* "Handle packet sequencing": the frame is the expected one
InOrder(seq_num) == seq_num = expected_seq_num

\* mutant: a frame already in the buffer is not replaced
BufferFrame_KeepsFirst(buffer, seq_num, frame) ==
  IF seq_num \in DOMAIN buffer THEN buffer ELSE DictSet(buffer, seq_num, frame)

\* "Out-of-order packet - buffer it": self.receive_buffer[seq_num] = frame
BufferFrame(buffer, seq_num, frame) == DictSet(buffer, seq_num, frame)

\* process_incoming_packets on one datagram d of at least 10 bytes; image is
\* what decompress_frame returns should the frame be complete, ack_raises
\* whether send_ack's sendto() raises
process_packet(d, image, ack_raises) ==
  IF LengthMismatch(d)
  THEN \* chunk size mismatch: continue
       /\ last' = [op |-> "recv", ret |-> "continue", seq |-> d.seq_num,
                   data |-> None, frame |-> None, acked |-> None]
       /\ UNCHANGED <<receiver_vars, acks, send_errors, delivered>>
  ELSE
  LET stored == DictSet(frame_chunks, d.seq_num,
                  DictSet(DictGet(frame_chunks, d.seq_num, EmptyDict),
                          d.chunk_index, d.data))
      totals == DictSet(frame_total_chunks, d.seq_num, d.total_chunks)
      r == reassemble_frame(stored, totals, d.seq_num)
      seq_num == d.seq_num
  IN
  /\ frame_chunks' = r.frame_chunks
  /\ frame_total_chunks' = r.frame_total_chunks
  /\ IF r.frame_data = None
     THEN \* still waiting for chunks: return None, seq_num, addr
          /\ last' = [op |-> "recv", ret |-> "return", seq |-> seq_num,
                      data |-> None, frame |-> None, acked |-> None]
          /\ UNCHANGED <<expected_seq_num, receive_buffer, recv_count,
                         duplicate_count, acks, send_errors, delivered>>
     ELSE IF image = None
     THEN \* the frame does not decode: no ACK, next datagram
          /\ last' = [op |-> "recv", ret |-> "continue", seq |-> seq_num,
                      data |-> r.frame_data, frame |-> None, acked |-> None]
          /\ UNCHANGED <<expected_seq_num, receive_buffer, recv_count,
                         duplicate_count, acks, send_errors, delivered>>
     ELSE /\ send_ack(seq_num, ack_raises)
          /\ IF InOrder(seq_num)
             THEN /\ expected_seq_num' =
                        Drain(expected_seq_num + 1, receive_buffer)
                  /\ recv_count' = recv_count
                        + (Drain(expected_seq_num + 1, receive_buffer)
                           - expected_seq_num)
                  /\ delivered' = Append(delivered, seq_num)
                  /\ last' = [op |-> "recv", ret |-> "return", seq |-> seq_num,
                              data |-> r.frame_data, frame |-> image,
                              acked |-> Some(seq_num)]
                  /\ UNCHANGED <<receive_buffer, duplicate_count>>
             ELSE IF seq_num > expected_seq_num
             THEN /\ receive_buffer' = BufferFrame(receive_buffer, seq_num,
                                                  image[1])
                  /\ last' = [op |-> "recv", ret |-> "return", seq |-> seq_num,
                              data |-> r.frame_data, frame |-> None,
                              acked |-> Some(seq_num)]
                  /\ UNCHANGED <<expected_seq_num, recv_count, duplicate_count,
                                 delivered>>
             ELSE /\ duplicate_count' = duplicate_count + 1
                  /\ last' = [op |-> "recv", ret |-> "return", seq |-> seq_num,
                              data |-> r.frame_data, frame |-> None,
                              acked |-> Some(seq_num)]
                  /\ UNCHANGED <<expected_seq_num, receive_buffer, recv_count,
                                 delivered>>

\* the frame data the datagram d would complete (None: none)
Completes(d) ==
  reassemble_frame(
    DictSet(frame_chunks, d.seq_num,
            DictSet(DictGet(frame_chunks, d.seq_num, EmptyDict),
                    d.chunk_index, d.data)),
    DictSet(frame_total_chunks, d.seq_num, d.total_chunks),
    d.seq_num).frame_data

\* ack_errors: whether the specification lets send_ack's sendto() raise
ProcessPacket(d, ack_errors) ==
  /\ \E image \in (IF ~LengthMismatch(d) /\ Completes(d) # None
                   THEN decompress_frame(Completes(d)[1]) ELSE { None }) :
       \E ack_raises \in (IF ack_errors /\ image # None
                             /\ send_errors < MaxFails
                          THEN BOOLEAN ELSE { FALSE }) :
         /\ (image # None /\ d.seq_num < expected_seq_num)
              => duplicate_count < MaxDup
         /\ process_packet(d, image, ack_raises)
  /\ UNCHANGED <<sender_vars, net, acked>>

\* a datagram of the channel reaches the receiver (any, any number of times)
RecvPacket == \E d \in net : ProcessPacket(d, TRUE)

\* --------------------------------------------------------- specifications
\* Sender, channel and receiver together.  The sender's timers read and
\* write nothing the channel or the receiver sees (a frame's retransmission
\* repeats datagrams already sent), so here its retransmissions are capped.
Next ==
  \/ Tick
  \/ TrySend(UpTo(SysMaxLen), TRUE, MaxSeq)
  \/ CheckTimeouts(MaxResend, TRUE)
  \/ RecvAck
  \/ RecvPacket

Spec == Init /\ [][Next]_vars

\* The sender alone, against any peer: every 4-byte datagram may arrive, for
\* sequence numbers sent, acknowledged or never sent.
AnyAck == \E ack_seq \in 0..MaxSeq : ProcessAck(ack_seq)

SenderNext ==
  \/ Tick
  \/ TrySend(OneContent, FALSE, MaxSeq)
  \/ CheckTimeouts(MaxRetries * MaxSeq, FALSE)
  \/ AnyAck

SenderSpec == Init /\ [][SenderNext]_vars

\* The receiver alone, against any channel: every datagram a sender may ever
\* put on the wire, and each with a wrong length field, may arrive in any
\* order and any number of times.
Wire ==
  UNION { Sent(split_large_frame(p, max_chunk_size), s,
               Len(split_large_frame(p, max_chunk_size))) :
            p \in OneContent, s \in 0..(MaxSeq - 1) }

AnyPacket ==
  \E d \in Wire : \E wrong \in 0..1 :
    ProcessPacket([d EXCEPT !.length = @ + wrong], TRUE)

ReceiverNext == AnyPacket \/ ShortPacket

ReceiverSpec == Init /\ [][ReceiverNext]_vars

\* The whole system with both loops running for ever: run() of the sender
\* calls process_acks and check_timeouts on every iteration, run() of the
\* receiver polls the socket on every iteration, and the channel hands over
\* every datagram and every ACK that was put on it.  sendto() of an ACK does
\* not raise here.  The caller sends LiveFrames frames.
Deliver(d) == d \in net /\ ProcessPacket(d, FALSE)

DeliverAck(ack_seq) == ack_seq \in acks /\ ProcessAck(ack_seq)

LiveNext ==
  \/ Tick
  \/ TrySend(OneContent, TRUE, LiveFrames)
  \/ CheckTimeouts(MaxRetries * MaxSeq, TRUE)
  \/ \E d \in Wire : Deliver(d)
  \/ \E ack_seq \in 0..(MaxSeq - 1) : DeliverAck(ack_seq)

LiveSpec ==
  /\ Init /\ [][LiveNext]_vars
  /\ WF_vars(Tick)
  /\ WF_vars(CheckTimeouts(MaxRetries * MaxSeq, TRUE))
  /\ \A d \in Wire : WF_vars(Deliver(d))
  /\ \A ack_seq \in 0..(MaxSeq - 1) : WF_vars(DeliverAck(ack_seq))

\* send_frame_with_protocol as a function any caller may use: the payloads
\* of SenderSpec and one that splits into MaxChunkCount + 1 chunks.
Oversize == { [i \in 1..(MaxChunkCount * max_chunk_size + 1) |-> 1] }

ApiNext ==
  \/ Tick
  \/ TrySend(OneContent \cup Oversize, FALSE, MaxSeq)
  \/ CheckTimeouts(MaxRetries * MaxSeq, FALSE)
  \/ AnyAck

ApiSpec == Init /\ [][ApiNext]_vars

\* The fragmenter and the reassembler on their own: split_large_frame is
\* handed any byte string of at most MaxLen bytes (the empty one included)
\* and any max_chunk_size of 1..MaxChunk, the frame is sent whole under
\* sequence number 0, and the receiver is fed its datagrams in any order and
\* any number of times.
ByteStrings == UNION { [1..n -> Bytes] : n \in 0..MaxLen }

FragInit ==
  /\ Init!1 /\ Init!2 /\ Init!3 /\ Init!4 /\ Init!5 /\ Init!6 /\ Init!7
  /\ Init!8 /\ Init!9 /\ Init!10 /\ Init!11 /\ Init!12 /\ Init!13
  /\ Init!14 /\ Init!15 /\ Init!16 /\ Init!18 /\ Init!19
  /\ \E frame_data \in ByteStrings : \E max \in 1..MaxChunk :
       last = [op |-> "input", frame_data |-> frame_data, max |-> max]

Split ==
  /\ last.op = "input"
  /\ LET chunks == split_large_frame(last.frame_data, last.max)
     IN /\ last' = [op |-> "split", frame_data |-> last.frame_data,
                     max |-> last.max, chunks |-> chunks]
        /\ net' = Sent(chunks, next_seq_num, Len(chunks))
        /\ sent_packets' = DictSet(sent_packets, next_seq_num,
              [frame_data |-> last.frame_data, age |-> 0, retries |-> 0])
        /\ ack_received' = DictSet(ack_received, next_seq_num, FALSE)
        /\ next_seq_num' = next_seq_num + 1
        /\ sent_count' = sent_count + 1
  /\ UNCHANGED <<window_size, base, retransmit_count, receiver_vars, acks,
                 send_errors, acked, delivered>>

Feed == \E d \in net : ProcessPacket(d, FALSE)

FragNext == Split \/ Feed

FragSpec == FragInit /\ [][FragNext]_vars

\* ------------------------------------------------------------------ claims
\* C1: in every reachable sender state next_seq_num - base <= window_size
\* and base <= next_seq_num, and no step decreases base.
C1_Window ==
  /\ [](next_seq_num - base <= window_size /\ base <= next_seq_num)
  /\ [][base' >= base]_vars

\* the window is full after it has slid
C1_Witness == base > 0 /\ next_seq_num - base = window_size

\* C2: the sequence numbers of the frames process_incoming_packets returns
\* to its caller are strictly increasing, whatever datagrams arrive and in
\* whatever order and number.
C2_DeliveredIncreasing ==
  \A i \in DOMAIN delivered : \A j \in DOMAIN delivered :
    i < j => delivered[i] < delivered[j]

\* two frames were returned and a duplicate of a returned frame was ignored
C2_Witness == Len(delivered) >= 2 /\ duplicate_count > 0

\* C3: every sequence number expected_seq_num has advanced past was returned
\* to the caller exactly once (the frames drained from receive_buffer
\* included).
C3_DrainedHandedOnce ==
  \A s \in 0..(expected_seq_num - 1) :
    Cardinality({ i \in DOMAIN delivered : delivered[i] = s }) = 1

\* C4: every key of receive_buffer is above expected_seq_num.
C4_BufferAboveExpected ==
  \A k \in DOMAIN receive_buffer : k > expected_seq_num

\* C5: a payload the receiver reassembles under a sequence number is the
\* payload the sender recorded under that sequence number.
C5_ReassembledIsSent ==
  (last.op = "recv" /\ last.data # None /\ last.seq \in DOMAIN sent_packets)
    => last.data[1] = sent_packets[last.seq].frame_data

\* C6: with both loops running and every datagram and ACK handed over, every
\* frame send_frame_with_protocol accepted is eventually acknowledged (its
\* record removed) and base moves past it.
C6_EventuallyAcked ==
  \A s \in 0..(LiveFrames - 1) :
    (s \in DOMAIN sent_packets) ~> (s \notin DOMAIN sent_packets /\ base > s)

\* C7: a record's retries stay in 0..3; a record with retries = 3 is not
\* retransmitted by check_timeouts, stays in sent_packets with retries = 3
\* and keeps base at or below its sequence number, in every step but the
\* processing of an ACK for it.
C7_RetryBudget ==
  /\ [](\A s \in DOMAIN sent_packets : sent_packets[s].retries \in 0..3)
  /\ [][\A s \in DOMAIN sent_packets :
          sent_packets[s].retries = 3 =>
            \/ last'.op = "ack" /\ last'.seq = s
            \/ /\ s \in DOMAIN sent_packets'
               /\ sent_packets'[s].retries = 3
               /\ base' <= s
               /\ last'.op = "timeouts" =>
                    s \notin Due /\ sent_packets'[s] = sent_packets[s]]_vars

\* check_timeouts has run over a record that is overdue with its budget spent
C7_Witness ==
  /\ last.op = "timeouts"
  /\ \E s \in DOMAIN sent_packets :
       sent_packets[s].retries = 3 /\ sent_packets[s].age > timeout

\* C8: send_frame_with_protocol called with next_seq_num - base >=
\* window_size returns False, transmits nothing and changes no field of the
\* sender.
C8_WindowFullNoChange ==
  [][(next_seq_num - base >= window_size /\ last'.op = "send") =>
       /\ last'.ok = FALSE
       /\ last'.tx = 0
       /\ UNCHANGED <<base, next_seq_num, sent_packets, ack_received,
                      sent_count, retransmit_count>>]_vars

\* a send was refused with the window full
C8_Witness ==
  /\ last.op = "send" /\ ~last.ok /\ last.tx = 0
  /\ next_seq_num - base >= window_size

\* C9: processing an ACK for a sequence number below base, at or above
\* next_seq_num, or already acknowledged changes none of base, next_seq_num,
\* sent_packets and ack_received.
C9_StaleAckNoChange ==
  [][(/\ last'.op = "ack"
      /\ \/ last'.seq < base
         \/ last'.seq >= next_seq_num
         \/ last'.seq \in acked) =>
       UNCHANGED <<base, next_seq_num, sent_packets, ack_received>>]_vars

\* an ACK for a frame below base has been processed and ignored while other
\* frames are in flight
C9_Witness ==
  /\ last.op = "ack" /\ ~last.hit /\ last.seq < base
  /\ DOMAIN sent_packets # {}

\* C10: base is the lowest sequence number of 0..next_seq_num that has not
\* been acknowledged.
LowestUnacked ==
  CHOOSE s \in (0..next_seq_num) \ acked :
    \A t \in (0..next_seq_num) \ acked : s <= t

C10_BaseLowestUnacked == base = LowestUnacked

\* the ACK for frame 0 came after the ACK for frame 1 and slid base over both
C10_Witness ==
  /\ last.op = "ack" /\ last.hit /\ last.seq = 0
  /\ base >= 2

Ceil(l, c) == CHOOSE n \in 0..l : n * c >= l /\ \A m \in 0..(n - 1) : m * c < l

\* the chunks joined in index order
RECURSIVE Join(_)
Join(chunks) ==
  IF chunks = << >> THEN << >>
  ELSE Join(SubSeq(chunks, 1, Len(chunks) - 1)) \o chunks[Len(chunks)]

\* C13 (as stated): split_large_frame(payload, C) returns exactly
\* ceil(L / C) chunks, each of at most C bytes, whose concatenation in index
\* order is payload, for every L >= 0 and C >= 1.
C13_SplitCeil ==
  last.op = "split" =>
    /\ Len(last.chunks) = Ceil(Len(last.frame_data), last.max)
    /\ \A i \in DOMAIN last.chunks : Len(last.chunks[i]) <= last.max
    /\ Join(last.chunks) = last.frame_data

\* C13 (amended): split_large_frame(payload, C) returns max(1, ceil(L / C))
\* chunks (one empty chunk for the empty payload), each of at most C bytes,
\* whose concatenation in index order is payload.
C13_SplitCeilAtLeastOne ==
  last.op = "split" =>
    /\ Len(last.chunks) = IF Len(last.frame_data) = 0 THEN 1
                          ELSE Ceil(Len(last.frame_data), last.max)
    /\ \A i \in DOMAIN last.chunks : Len(last.chunks[i]) <= last.max
    /\ Join(last.chunks) = last.frame_data

\* a frame was split into several chunks, the last one shorter than the rest
C13_Witness ==
  /\ last.op = "split" /\ Len(last.chunks) >= 2
  /\ Len(last.chunks[Len(last.chunks)]) < last.max

\* the chunks stored under d's sequence number once d has been stored
StoredWith(d) ==
  DictSet(DictGet(frame_chunks, d.seq_num, EmptyDict), d.chunk_index, d.data)

\* C14: for every chunk store the receiver can hold and every arriving
\* chunk, a payload is reassembled if and only if, the chunk stored, the
\* stored indexes are exactly 0..total_chunks-1; otherwise no payload is
\* produced and the stored chunks stay, the arriving one among them.
C14_CompleteIffAllIndices ==
  /\ [](\A d \in Wire :
          LET r == reassemble_frame(
                     DictSet(frame_chunks, d.seq_num, StoredWith(d)),
                     DictSet(frame_total_chunks, d.seq_num, d.total_chunks),
                     d.seq_num)
          IN /\ (r.frame_data # None)
                  <=> (DOMAIN StoredWith(d) = 0..(d.total_chunks - 1))
             /\ r.frame_data = None
                  => /\ r.frame_chunks[d.seq_num] = StoredWith(d)
                     /\ r.frame_total_chunks[d.seq_num] = d.total_chunks)
  /\ [][/\ (last'.op = "recv" /\ last'.ret = "return" /\ last'.data = None)
             => /\ last'.seq \in DOMAIN frame_chunks'
                /\ DOMAIN frame_chunks'[last'.seq]
                     # 0..(frame_total_chunks'[last'.seq] - 1)
                /\ \A i \in DOMAIN DictGet(frame_chunks, last'.seq, EmptyDict) :
                     i \in DOMAIN frame_chunks'[last'.seq]
        /\ (last'.op = "recv" /\ last'.data # None)
             => \E d \in Wire :
                  /\ d.seq_num = last'.seq
                  /\ DOMAIN StoredWith(d) = 0..(d.total_chunks - 1)
                  /\ last'.data = Some(Concat(StoredWith(d), d.total_chunks))
                  /\ last'.seq \notin DOMAIN frame_chunks']_vars

\* two of the three chunks of a frame are stored and no payload was produced
C14_Witness ==
  /\ last.op = "recv" /\ last.ret = "return" /\ last.data = None
  /\ last.seq \in DOMAIN frame_chunks
  /\ Cardinality(DOMAIN frame_chunks[last.seq]) = 2
  /\ frame_total_chunks[last.seq] = 3

\* C15: the chunks of split_large_frame(P, C), fed to the receiver in any
\* order and any number of times, give a reassembled payload exactly in the
\* step in which the last missing chunk arrives, and that payload is P.
C15_RoundTrip ==
  [][last'.op = "recv" =>
       LET P == sent_packets[0].frame_data
           all == { d.chunk_index : d \in net }
           pre == DOMAIN DictGet(frame_chunks, 0, EmptyDict)
           post == DOMAIN DictGet(frame_chunks', 0, EmptyDict)
       IN /\ last'.data # None
               => /\ Cardinality(all \ pre) = 1
                  /\ last'.data = Some(P)
                  /\ post = {}
          /\ last'.data = None
               => /\ post # all /\ post # {}
                  /\ pre \subseteq post /\ post \subseteq all
                  /\ Cardinality(post \ pre) <= 1]_vars

\* a frame of several chunks with different bytes has been reassembled a
\* second time, from chunks fed again
C15_Witness ==
  /\ last.op = "recv" /\ last.data = Some(sent_packets[0].frame_data)
  /\ Cardinality(net) >= 2
  /\ \E i, j \in DOMAIN last.data[1] : last.data[1][i] # last.data[1][j]
  /\ duplicate_count = 1

\* the records check_timeouts is to retransmit: unacknowledged, older than
\* the timeout of 1 unit, retries below 3
Overdue ==
  { s \in DOMAIN sent_packets :
      /\ sent_packets[s].age > 1
      /\ sent_packets[s].retries < 3
      /\ ~(s \in DOMAIN ack_received /\ ack_received[s]) }

\* the datagrams of the stored payload of record s, under sequence number s
ChunksOf(s) ==
  LET data == sent_packets[s].frame_data
      n == IF Len(data) = 0 THEN 1 ELSE Ceil(Len(data), max_chunk_size)
  IN { [length |-> Len(d), seq_num |-> s, chunk_index |-> i,
        total_chunks |-> n, data |-> d] :
         <<i, d>> \in { <<k, SubSeq(data, k * max_chunk_size + 1,
                                    Min((k + 1) * max_chunk_size, Len(data)))>> :
                          k \in 0..(n - 1) } }

\* C16 (as stated): check_timeouts retransmits exactly the overdue records:
\* each gets its timestamp reset and retries + 1, every other record and base
\* and next_seq_num are unchanged.
C16_RetransmitsOverdue ==
  [][last'.op = "timeouts" =>
       /\ DOMAIN sent_packets' = DOMAIN sent_packets
       /\ \A s \in DOMAIN sent_packets :
            sent_packets'[s] =
              IF s \in Overdue
              THEN [sent_packets[s] EXCEPT !.age = 0, !.retries = @ + 1]
              ELSE sent_packets[s]
       /\ UNCHANGED <<base, next_seq_num>>]_vars

\* C16 (amended): check_timeouts calls retransmit_frame for exactly the
\* overdue records; a retransmission sends all chunks of the stored payload
\* under the record's sequence number, resets the timestamp and adds 1 to
\* retries and to retransmit_count, unless a sendto() raises, and then the
\* record is left as it was; every other record, base, next_seq_num,
\* ack_received and sent_count are unchanged.
C16_RetransmitsOverdueUnlessError ==
  /\ [](\A s \in Overdue :
          LET chunks == split_large_frame(sent_packets[s].frame_data,
                                          max_chunk_size)
          IN /\ retransmit_frame(sent_packets, s, Len(chunks) + 1).tx
                  = ChunksOf(s)
             /\ \A fail \in 1..Len(chunks) :
                  /\ retransmit_frame(sent_packets, s, fail).tx
                       \subseteq ChunksOf(s)
                  /\ Cardinality(retransmit_frame(sent_packets, s, fail).tx)
                       = fail - 1)
  /\ [][last'.op = "timeouts" =>
          LET resent == { s \in DOMAIN sent_packets :
                            sent_packets'[s] # sent_packets[s] }
          IN /\ DOMAIN sent_packets' = DOMAIN sent_packets
             /\ resent \subseteq Overdue
             /\ \A s \in resent :
                  sent_packets'[s] =
                    [sent_packets[s] EXCEPT !.age = 0, !.retries = @ + 1]
             /\ retransmit_count' = retransmit_count + Cardinality(resent)
             /\ send_errors' =
                  send_errors + Cardinality(Overdue \ resent)
             /\ UNCHANGED <<base, next_seq_num, ack_received, sent_count,
                            window_size>>]_vars

\* check_timeouts has retransmitted one record and left a younger one alone
C16_Witness ==
  /\ last.op = "timeouts"
  /\ \E s, t \in DOMAIN sent_packets :
       /\ sent_packets[s].retries = 1 /\ sent_packets[s].age = 0
       /\ sent_packets[t].retries = 0 /\ sent_packets[t].age = 1
  /\ retransmit_count = 1

\* C17: a send_frame_with_protocol call in which a sendto() raises returns
\* False and creates no record and no ack flag; next_seq_num, base,
\* sent_count and the existing records are unchanged.
C17_AbortOnSendError ==
  [][(last'.op = "send" /\ send_errors' # send_errors) =>
       /\ last'.ok = FALSE /\ "error" \notin DOMAIN last'
       /\ UNCHANGED <<next_seq_num, base, sent_count, sent_packets,
                      ack_received, retransmit_count>>]_vars

\* a send was aborted after its first chunk while an earlier frame is in
\* flight
C17_Witness ==
  /\ last.op = "send" /\ ~last.ok /\ last.tx >= 1
  /\ send_errors = 1
  /\ DOMAIN sent_packets = {0} /\ next_seq_num = 1

\* C18: the datagrams transmitted under one sequence number all belong to
\* one payload: they carry the same chunk count, and the same data under the
\* same chunk index.
C18_NoSeqReuse ==
  \A d1 \in net : \A d2 \in net :
    d1.seq_num = d2.seq_num =>
      /\ d1.total_chunks = d2.total_chunks
      /\ d1.chunk_index = d2.chunk_index => d1.data = d2.data

\* C19: a step that processes a datagram shorter than the header, or one
\* whose length field differs from the length of its data, changes none of
\* frame_chunks, frame_total_chunks, expected_seq_num, receive_buffer,
\* recv_count and duplicate_count, sends no ACK and hands nothing to the
\* caller; the receiver goes on to the next datagram.
C19_MalformedDropped ==
  [][((\E d \in Wire : ProcessPacket([d EXCEPT !.length = @ + 1], TRUE))
        \/ ShortPacket)
       => /\ UNCHANGED <<receiver_vars, acks, send_errors, delivered>>
          /\ last'.ret = "continue" /\ last'.frame = None]_vars

\* a datagram was dropped while chunks of a frame are stored
C19_Witness ==
  /\ last.op = "recv" /\ last.ret = "continue" /\ last.data = None
  /\ frame_chunks # EmptyDict
  /\ expected_seq_num > 0

\* C20: send_frame_with_protocol, called with the window open and a payload
\* that splits into more chunks than the header's chunk count can hold,
\* returns False (a failed send), transmits no chunk and leaves next_seq_num,
\* base and the records unchanged.
C20_OversizeReportedAsFailure ==
  [][(/\ ~WindowFull
      /\ \E frame_data \in Oversize :
           send_frame_with_protocol(frame_data, Len(frame_data) + 1, FALSE))
       => /\ last'.ok = FALSE /\ "error" \notin DOMAIN last'
          /\ last'.tx = 0
          /\ UNCHANGED <<next_seq_num, base, sent_packets,
                         ack_received>>]_vars


\* C21: in every reachable receiver state neither frame_chunks nor
\* frame_total_chunks has an entry for a sequence number whose frame was
\* already reassembled (every number below expected_seq_num and every key
\* of receive_buffer was), whatever chunks arrive afterwards.
C21_NoEntryForReassembled ==
  \A s \in (DOMAIN frame_chunks) \cup (DOMAIN frame_total_chunks) :
    s >= expected_seq_num /\ s \notin DOMAIN receive_buffer


\* C22: in every reachable sender state ack_received has an entry for
\* exactly the sequence numbers of [base, next_seq_num) and sent_packets
\* for exactly those of them that were not acknowledged; a record appears
\* only for the frame that enters the window and disappears only when its
\* ACK is processed.
C22_RecordsAreUnackedWindow ==
  /\ [](/\ DOMAIN ack_received = base..(next_seq_num - 1)
        /\ DOMAIN sent_packets =
             { s \in base..(next_seq_num - 1) : ~ack_received[s] }
        /\ DOMAIN sent_packets = (base..(next_seq_num - 1)) \ acked)
  /\ [][/\ \A s \in (DOMAIN sent_packets') \ (DOMAIN sent_packets) :
             /\ last'.op = "send" /\ last'.ok
             /\ s = next_seq_num /\ next_seq_num' = s + 1
        /\ \A s \in (DOMAIN sent_packets) \ (DOMAIN sent_packets') :
             last'.op = "ack" /\ last'.seq = s]_vars

\* a later frame of the window was acknowledged before an earlier one, whose
\* record is still held
C22_Witness ==
  /\ \E s \in DOMAIN ack_received : ack_received[s]
  /\ base \in DOMAIN sent_packets
  /\ last.op = "ack" /\ last.hit


C25_ExpectedIsLowestMissing ==
  /\ [](expected_seq_num \notin DOMAIN receive_buffer)
  /\ [][/\ (last'.op = "recv" /\ last'.acked # None)
             => \/ last'.seq < expected_seq_num'
                \/ last'.seq \in DOMAIN receive_buffer'
        /\ expected_seq_num' >= expected_seq_num
        /\ DOMAIN receive_buffer \subseteq DOMAIN receive_buffer'
        /\ \A s \in (expected_seq_num..(expected_seq_num' - 1))
                      \cup (DOMAIN receive_buffer' \ DOMAIN receive_buffer) :
             \/ s \in DOMAIN receive_buffer
             \/ last'.op = "recv" /\ last'.acked = Some(s)]_vars

\* the expected frame arrived after the next one: expected_seq_num has
\* passed the buffered frame too
C25_Witness ==
  /\ last.op = "recv" /\ last.frame # None
  /\ expected_seq_num = last.seq + 2
  /\ (last.seq + 1) \in DOMAIN receive_buffer


\* C26: a retransmit_frame call in which a sendto() raises returns False and
\* leaves the record's timestamp and retries as they were; in check_timeouts
\* such a record adds nothing to retransmit_count and is still due for
\* retransmission afterwards, its retry budget untouched.
C26_FailedRetransmitKeepsRecord ==
  /\ [](\A s \in DOMAIN sent_packets :
          \A fail \in 1..Len(split_large_frame(sent_packets[s].frame_data,
                                               max_chunk_size)) :
            /\ ~retransmit_frame(sent_packets, s, fail).ok
            /\ retransmit_frame(sent_packets, s, fail).info = sent_packets[s])
  /\ [][(last'.op = "timeouts" /\ send_errors' # send_errors) =>
          LET failed == { s \in Due : sent_packets'[s] = sent_packets[s] }
          IN /\ Cardinality(failed) = send_errors' - send_errors
             /\ retransmit_count' =
                  retransmit_count + Cardinality(Due \ failed)
             /\ failed \subseteq Due'
             /\ \A s \in failed :
                  sent_packets'[s].retries = sent_packets[s].retries]_vars

\* check_timeouts has run, the one retransmission it tried failed, and the
\* record is still due
C26_Witness ==
  /\ last.op = "timeouts"
  /\ send_errors = 1 /\ retransmit_count = 0
  /\ Due # {}
====
